---- MODULE Spec2Model ----
(***************************************************************************)
(* rssant_common/validator.py: the validation adapter that registers the   *)
(* cursor codec, the UnionId codec and the dict decorator as validr        *)
(* validators.  Strings are sequences of code points, bytes are sequences  *)
(* of 0..255, and every conversion (UTF-8, base64, cursor grammar, UnionId *)
(* packing) is computed, never assumed.                                    *)
(***************************************************************************)
EXTENDS Integers, Sequences, FiniteSets, TLC

VARIABLES cursor_cfg, unionid_cfg, schema, dict_cfg, frames

vars == <<cursor_cfg, unionid_cfg, schema, dict_cfg, frames>>

(***************************************************************************)
(* Bounds of the model.                                                    *)
(***************************************************************************)
\* longest raw string enumerated exhaustively over RawChars
MaxLen == 5
\* most entries of a Cursor object handed to the validator
MaxEntries == 2
\* concurrent validate() calls in ConcSpec
NThreads == 2
\* largest UnionId component the codec packs (the spec leaves the figure open)
MaxComponent == 63

(***************************************************************************)
(* Characters.                                                             *)
(***************************************************************************)
\* the characters the inputs are written in: two letters, a character outside
\* every alphabet of the codecs, and a non-ASCII character (U+00FF)
SampleChars == [a |-> 97, b |-> 98, bang |-> 33, yuml |-> 255]
ChA == SampleChars.a
ChB == SampleChars.b
ChBang == SampleChars.bang
ChYuml == SampleChars.yuml
ChColon == 58
ChComma == 44
ChPad == 61
ChPlus == 43
ChSlash == 47
ChMinus == 45
ChUnderscore == 95

RECURSIVE SeqsUpTo(_, _)
SeqsUpTo(S, n) ==
    IF n = 0 THEN {<<>>}
    ELSE LET shorter == SeqsUpTo(S, n - 1)
         IN  shorter \cup {Append(s, c) : s \in shorter, c \in S}

RECURSIVE Flatten(_)
Flatten(ss) == IF ss = <<>> THEN <<>> ELSE Head(ss) \o Flatten(Tail(ss))

Contains(s, c) == \E i \in 1..Len(s) : s[i] = c

InsertAt(s, i, c) == SubSeq(s, 1, i - 1) \o <<c>> \o SubSeq(s, i, Len(s))

(***************************************************************************)
(* Python values and outcomes.  Every field name holds one type of value.  *)
(***************************************************************************)
PyStr(s) == [t |-> "str", s |-> s]
PyBytes(b) == [t |-> "bytes", b |-> b]
PyInt(n) == [t |-> "int", n |-> n]
PyNone == [t |-> "none"]
PyCursor(items) == [t |-> "cursor", items |-> items]
PyTuple(cls, ids) == [t |-> "tuple", cls |-> cls, ids |-> ids]
PyDict(d) == [t |-> "dict", d |-> d]

\* an outcome: a returned value, or a raised exception with its message and
\* what the message names (keys, or <<position, value>> of a component); the
\* message is the sequence of its parts
NoKeys == {}
Ok(v) == [ok |-> TRUE, v |-> v, exc |-> "", msg |-> <<>>, named |-> NoKeys]
Raise(exc, msg, named) == [ok |-> FALSE, v |-> PyNone, exc |-> exc, msg |-> <<msg>>, named |-> named]

\* the exception classes of Python and of binascii, child to parent
BuiltinExcParent(c) ==
    CASE c = "UnicodeEncodeError" -> "UnicodeError"
      [] c = "UnicodeDecodeError" -> "UnicodeError"
      [] c = "UnicodeError" -> "ValueError"
      [] c = "binascii.Error" -> "ValueError"
      [] c = "ValueError" -> "Exception"
      [] c = "TypeError" -> "Exception"
      [] c = "AttributeError" -> "Exception"
      [] c = "Invalid" -> "Exception"
      [] OTHER -> "BaseException"

\* the codecs' failures: cursor failures are ValueErrors, UnionId failures
\* derive from unionid.UnionIdError
CodecExcParent(c) ==
    CASE c = "ParseError" -> "ValueError"
      [] c = "DuplicateKeyError" -> "ValueError"
      [] c = "MissingKeyError" -> "ValueError"
      [] c = "RangeError" -> "UnionIdError"
      [] c = "ArityMismatchError" -> "UnionIdError"
      [] c = "InvalidTokenError" -> "UnionIdError"
      [] c = "UnionIdError" -> "Exception"
      [] OTHER -> BuiltinExcParent(c)

RECURSIVE IsSubclass(_, _)
IsSubclass(c, classes) ==
    \/ c \in classes
    \/ c \notin {"Exception", "BaseException"} /\ IsSubclass(CodecExcParent(c), classes)

(***************************************************************************)
(* str.encode / bytes.decode.                                              *)
(***************************************************************************)
EncodeAscii(s) ==
    IF \E i \in 1..Len(s) : s[i] > 127
    THEN Raise("UnicodeEncodeError", "'ascii' codec can't encode character", NoKeys)
    ELSE Ok(PyBytes(s))

Utf8EncodeChar(c) ==
    IF c < 128 THEN <<c>>
    ELSE IF c < 2048 THEN <<192 + (c \div 64), 128 + (c % 64)>>
    ELSE IF c < 65536
         THEN <<224 + (c \div 4096), 128 + ((c \div 64) % 64), 128 + (c % 64)>>
    ELSE <<240 + (c \div 262144), 128 + ((c \div 4096) % 64),
           128 + ((c \div 64) % 64), 128 + (c % 64)>>

Utf8Encode(s) == Flatten([i \in 1..Len(s) |-> Utf8EncodeChar(s[i])])

IsCont(b, i) == i <= Len(b) /\ b[i] >= 128 /\ b[i] <= 191

\* the length of the well-formed UTF-8 sequence starting at b[i], or 0
Utf8SeqLen(b, i) ==
    LET x == b[i] IN
    IF x < 128 THEN 1
    ELSE IF x >= 194 /\ x <= 223 THEN (IF IsCont(b, i + 1) THEN 2 ELSE 0)
    ELSE IF x >= 224 /\ x <= 239
         THEN (IF /\ IsCont(b, i + 1) /\ IsCont(b, i + 2)
                  /\ (x = 224 => b[i + 1] >= 160)
                  /\ (x = 237 => b[i + 1] <= 159)
               THEN 3 ELSE 0)
    ELSE IF x >= 240 /\ x <= 244
         THEN (IF /\ IsCont(b, i + 1) /\ IsCont(b, i + 2) /\ IsCont(b, i + 3)
                  /\ (x = 240 => b[i + 1] >= 144)
                  /\ (x = 244 => b[i + 1] <= 143)
               THEN 4 ELSE 0)
    ELSE 0

Utf8CodePoint(b, i, n) ==
    IF n = 1 THEN b[i]
    ELSE IF n = 2 THEN (b[i] - 192) * 64 + (b[i + 1] - 128)
    ELSE IF n = 3 THEN (b[i] - 224) * 4096 + (b[i + 1] - 128) * 64 + (b[i + 2] - 128)
    ELSE (b[i] - 240) * 262144 + (b[i + 1] - 128) * 4096
         + (b[i + 2] - 128) * 64 + (b[i + 3] - 128)

RECURSIVE Utf8DecodeFrom(_, _, _)
Utf8DecodeFrom(b, i, acc) ==
    IF i > Len(b) THEN Ok(PyStr(acc))
    ELSE LET n == Utf8SeqLen(b, i) IN
         IF n = 0
         THEN Raise("UnicodeDecodeError", "'utf-8' codec can't decode byte", NoKeys)
         ELSE Utf8DecodeFrom(b, i + n, Append(acc, Utf8CodePoint(b, i, n)))

Utf8Decode(b) == Utf8DecodeFrom(b, 1, <<>>)

(***************************************************************************)
(* base64.urlsafe_b64encode / urlsafe_b64decode.                           *)
(***************************************************************************)
\* the standard alphabet: A-Z a-z 0-9 + /
StdB64Char(i) ==
    IF i < 26 THEN 65 + i
    ELSE IF i < 52 THEN 97 + (i - 26)
    ELSE IF i < 62 THEN 48 + (i - 52)
    ELSE IF i = 62 THEN ChPlus
    ELSE ChSlash

\* the value of a character of the standard alphabet, 64 for any other
StdB64Value(c) ==
    IF c >= 65 /\ c <= 90 THEN c - 65
    ELSE IF c >= 97 /\ c <= 122 THEN c - 97 + 26
    ELSE IF c >= 48 /\ c <= 57 THEN c - 48 + 52
    ELSE IF c = ChPlus THEN 62
    ELSE IF c = ChSlash THEN 63
    ELSE 64

RECURSIVE B2aBase64(_)
B2aBase64(b) ==
    IF Len(b) = 0 THEN <<>>
    ELSE IF Len(b) = 1
         THEN <<StdB64Char(b[1] \div 4), StdB64Char((b[1] % 4) * 16), ChPad, ChPad>>
    ELSE IF Len(b) = 2
         THEN <<StdB64Char(b[1] \div 4), StdB64Char((b[1] % 4) * 16 + (b[2] \div 16)),
                StdB64Char((b[2] % 16) * 4), ChPad>>
    ELSE <<StdB64Char(b[1] \div 4), StdB64Char((b[1] % 4) * 16 + (b[2] \div 16)),
           StdB64Char((b[2] % 16) * 4 + (b[3] \div 64)), StdB64Char(b[3] % 64)>>
         \o B2aBase64(SubSeq(b, 4, Len(b)))

UrlsafeEncodeTranslate(s) ==
    [i \in 1..Len(s) |-> IF s[i] = ChPlus THEN ChMinus
                         ELSE IF s[i] = ChSlash THEN ChUnderscore ELSE s[i]]

UrlsafeDecodeTranslate(s) ==
    [i \in 1..Len(s) |-> IF s[i] = ChMinus THEN ChPlus
                         ELSE IF s[i] = ChUnderscore THEN ChSlash ELSE s[i]]

\* urlsafe_b64encode(b): bytes -> bytes, padded
UrlsafeB64Encode(b) == UrlsafeEncodeTranslate(B2aBase64(b))

\* binascii.a2b_base64 in its default, non-strict mode: a character outside
\* the alphabet is skipped, and input after a complete pad is ignored
RECURSIVE A2bBase64(_, _, _, _, _, _)
A2bBase64(s, i, quad, left, pads, out) ==
    IF i > Len(s)
    THEN IF quad = 0 THEN Ok(PyBytes(out))
         ELSE IF quad = 1
              THEN Raise("binascii.Error", "Invalid base64-encoded string", NoKeys)
         ELSE Raise("binascii.Error", "Incorrect padding", NoKeys)
    ELSE IF s[i] = ChPad
         THEN IF quad >= 2 /\ quad + pads + 1 >= 4
              THEN Ok(PyBytes(out))
              ELSE A2bBase64(s, i + 1, quad, left,
                             IF quad >= 2 THEN pads + 1 ELSE pads, out)
    ELSE LET v == StdB64Value(s[i]) IN
         IF v >= 64 THEN A2bBase64(s, i + 1, quad, left, pads, out)
         ELSE IF quad = 0 THEN A2bBase64(s, i + 1, 1, v, 0, out)
         ELSE IF quad = 1
              THEN A2bBase64(s, i + 1, 2, v % 16, 0, Append(out, left * 4 + (v \div 16)))
         ELSE IF quad = 2
              THEN A2bBase64(s, i + 1, 3, v % 4, 0, Append(out, left * 16 + (v \div 4)))
         ELSE A2bBase64(s, i + 1, 0, 0, 0, Append(out, left * 64 + v))

\* urlsafe_b64decode(b): bytes -> bytes
UrlsafeB64Decode(b) == A2bBase64(UrlsafeDecodeTranslate(b), 1, 0, 0, 0, <<>>)

(***************************************************************************)
(* Cursor value model and codec (rssant_common/cursor.py).  A Cursor is    *)
(* its sequence of <<key, value>> entries; equality is equality of that    *)
(* sequence.                                                               *)
(***************************************************************************)
IndexOf(s, c) == IF Contains(s, c) THEN CHOOSE i \in 1..Len(s) : s[i] = c /\ \A j \in 1..(i - 1) : s[j] # c ELSE 0

\* str.split(sep): the pieces between the separators, at least one piece
RECURSIVE SplitOn(_, _)
SplitOn(s, sep) ==
    LET i == IndexOf(s, sep) IN
    IF i = 0 THEN <<s>>
    ELSE <<SubSeq(s, 1, i - 1)>> \o SplitOn(SubSeq(s, i + 1, Len(s)), sep)

RECURSIVE JoinWith(_, _)
JoinWith(ss, sep) ==
    IF ss = <<>> THEN <<>>
    ELSE IF Len(ss) = 1 THEN ss[1]
    ELSE ss[1] \o <<sep>> \o JoinWith(Tail(ss), sep)

CursorKeys(items) == {items[i][1] : i \in 1..Len(items)}

\* Cursor._check_missing_keys(keys): every required key is present, or the
\* failure lists all the missing keys
CheckMissingKeys(items, keys) ==
    LET missing == keys \ CursorKeys(items) IN
    IF missing = {} THEN Ok(PyCursor(items))
    ELSE Raise("MissingKeyError", "missing cursor keys", missing)

RECURSIVE ParsePairs(_, _, _)
ParsePairs(pairs, i, items) ==
    IF i > Len(pairs) THEN Ok(PyCursor(items))
    ELSE LET p == pairs[i]
             c == IndexOf(p, ChColon)
             key == SubSeq(p, 1, c - 1)
             value == SubSeq(p, c + 1, Len(p))
         IN  IF c = 0 THEN Raise("ParseError", "pair without ':'", NoKeys)
             ELSE IF key = <<>> THEN Raise("ParseError", "empty key", NoKeys)
             ELSE IF Contains(value, ChColon)
                  THEN Raise("ParseError", "delimiter in value", NoKeys)
             ELSE IF key \in CursorKeys(items)
                  THEN Raise("DuplicateKeyError", "duplicate cursor key", {key})
             ELSE ParsePairs(pairs, i + 1, Append(items, <<key, value>>))

\* Cursor.from_string(value, keys); a value that is no string is taken to fail
\* as malformed input, the reading under which the adapter reports it as Invalid
CursorFromString(value, keys) ==
    IF value.t # "str" THEN Raise("ParseError", "not a string", NoKeys)
    ELSE LET built == IF value.s = <<>> THEN Ok(PyCursor(<<>>))
                      ELSE ParsePairs(SplitOn(value.s, ChComma), 1, <<>>)
         IN  IF built.ok THEN CheckMissingKeys(built.v.items, keys) ELSE built

\* str(cursor)
CursorFormat(items) ==
    JoinWith([i \in 1..Len(items) |-> items[i][1] \o <<ChColon>> \o items[i][2]], ChComma)

(***************************************************************************)
(* UnionId codec (rssant_common/unionid.py): every component is one field, *)
(* a length digit followed by that many base-64 digits, most significant   *)
(* first, over the alphabet 0-9 A-Z a-z - _.                               *)
(***************************************************************************)
TokenBase == 64

TokenChar(d) ==
    IF d < 10 THEN 48 + d
    ELSE IF d < 36 THEN 65 + (d - 10)
    ELSE IF d < 62 THEN 97 + (d - 36)
    ELSE IF d = 62 THEN ChMinus
    ELSE ChUnderscore

\* the digit a character stands for, TokenBase for a character outside the alphabet
TokenValue(c) ==
    IF c >= 48 /\ c <= 57 THEN c - 48
    ELSE IF c >= 65 /\ c <= 90 THEN c - 65 + 10
    ELSE IF c >= 97 /\ c <= 122 THEN c - 97 + 36
    ELSE IF c = ChMinus THEN 62
    ELSE IF c = ChUnderscore THEN 63
    ELSE TokenBase

RECURSIVE Digits(_)
Digits(n) == IF n < TokenBase THEN <<n>> ELSE Append(Digits(n \div TokenBase), n % TokenBase)

EncodeField(n) ==
    LET ds == Digits(n) IN <<TokenChar(Len(ds))>> \o [i \in 1..Len(ds) |-> TokenChar(ds[i])]

\* unionid.encode(*ids)
UnionidEncode(ids) ==
    IF \E i \in 1..Len(ids) : ids[i] < 0 \/ ids[i] > MaxComponent
    THEN LET i == CHOOSE j \in 1..Len(ids) :
                      /\ (ids[j] < 0 \/ ids[j] > MaxComponent)
                      /\ \A k \in 1..(j - 1) : ~(ids[k] < 0 \/ ids[k] > MaxComponent)
         IN  Raise("RangeError", "component out of range", {<<i, ids[i]>>})
    ELSE Ok(PyStr(Flatten([i \in 1..Len(ids) |-> EncodeField(ids[i])])))

RECURSIVE DigitsValue(_, _)
DigitsValue(ds, acc) ==
    IF ds = <<>> THEN acc ELSE DigitsValue(Tail(ds), acc * TokenBase + TokenValue(Head(ds)))

RECURSIVE DecodeFields(_, _, _)
DecodeFields(s, i, ids) ==
    IF i > Len(s) THEN Ok(PyTuple("tuple", ids))
    ELSE LET n == TokenValue(s[i])
             ds == SubSeq(s, i + 1, i + n)
         IN  IF n = 0 \/ n >= TokenBase \/ i + n > Len(s)
             THEN Raise("InvalidTokenError", "malformed field length", NoKeys)
             ELSE IF \E k \in 1..n : TokenValue(ds[k]) >= TokenBase
                  THEN Raise("InvalidTokenError", "character outside the alphabet", NoKeys)
             ELSE IF n > 1 /\ TokenValue(ds[1]) = 0
                  THEN Raise("InvalidTokenError", "malformed field", NoKeys)
             ELSE DecodeFields(s, i + n + 1, Append(ids, DigitsValue(ds, 0)))

\* no expected arity is passed by the caller
NoArity == 0

\* unionid.decode(token, expected_arity)
UnionidDecode(token, expected_arity) ==
    IF \E i \in 1..Len(token) : TokenValue(token[i]) >= TokenBase
    THEN Raise("InvalidTokenError", "character outside the alphabet", NoKeys)
    ELSE IF token = <<>> THEN Raise("InvalidTokenError", "empty token", NoKeys)
    ELSE LET r == DecodeFields(token, 1, <<>>) IN
         IF r.ok /\ expected_arity # NoArity /\ Len(r.v.ids) # expected_arity
         THEN Raise("ArityMismatchError", "wrong number of components", NoKeys)
         ELSE r

(***************************************************************************)
(* cursor_validator (validator.py 18-44).                                  *)
(***************************************************************************)
ChSpace == 32

RECURSIVE Strip(_)
Strip(s) ==
    IF s # <<>> /\ Head(s) = ChSpace THEN Strip(Tail(s))
    ELSE IF s # <<>> /\ s[Len(s)] = ChSpace THEN Strip(SubSeq(s, 1, Len(s) - 1))
    ELSE s

\* keys.strip().replace(',', ' ').split() as a set; a falsy option (None, '')
\* is left as it is and demands no key
CursorValidatorKeys(opt) ==
    IF opt.t # "str" \/ opt.s = <<>> THEN NoKeys
    ELSE LET stripped == Strip(opt.s)
             spaced == [i \in 1..Len(stripped) |->
                           IF stripped[i] = ChComma THEN ChSpace ELSE stripped[i]]
             pieces == SplitOn(spaced, ChSpace)
         IN  {pieces[i] : i \in 1..Len(pieces)} \ {<<>>}

\* the closure of validate(): the factory's arguments after lines 21-25
CursorValidatorBuild(keys, output_object, base64) ==
    [keys |-> CursorValidatorKeys(keys), output_object |-> output_object, base64 |-> base64]

\* a call of validate(value) that has not started
NewFrame(fn, value) ==
    [fn |-> fn, pc |-> "start", input |-> value, value |-> value,
     out |-> Ok(PyNone), parsed |-> FALSE]

IdleFrame == [NewFrame("none", PyNone) EXCEPT !.pc = "idle"]

Goto(f, pc, value) == [f EXCEPT !.pc = pc, !.value = value]

Finish(f, out) == [f EXCEPT !.pc = "done", !.out = out]

\* urlsafe_b64decode(value.encode('ascii')).decode('utf-8')
TransportUnwrap(value) ==
    IF value.t # "str"
    THEN Raise("AttributeError", "object has no attribute 'encode'", NoKeys)
    ELSE LET ascii == EncodeAscii(value.s) IN
         IF ~ascii.ok THEN ascii
         ELSE LET raw == UrlsafeB64Decode(ascii.v.b) IN
              IF ~raw.ok THEN raw ELSE Utf8Decode(raw.v.b)

\* a wrap that drops the '=' padding
TransportWrapNoPad(s) ==
    LET e == UrlsafeB64Encode(Utf8Encode(s))
    IN  PyStr(SubSeq(e, 1, Len(e) - Cardinality({i \in 1..Len(e) : e[i] = ChPad})))

\* urlsafe_b64encode(value.encode('utf-8')).decode()
TransportWrap(s) == Utf8Decode(UrlsafeB64Encode(Utf8Encode(s))).v

\* except (UnicodeEncodeError, UnicodeDecodeError, ValueError) as ex:
\*     raise Invalid(str(ex)) from None
CursorExcept(r) ==
    IF IsSubclass(r.exc, {"UnicodeEncodeError", "UnicodeDecodeError", "ValueError"})
    THEN [r EXCEPT !.exc = "Invalid"]
    ELSE r

\* an output that wraps whether or not base64 is set
CursorOutputAlwaysWrap(c, value) ==
    IF c.output_object THEN value ELSE TransportWrap(CursorFormat(value.items))

\* an output that hands back the Cursor whatever output_object is
CursorOutputObject(c, value) == value

\* lines 37-42
CursorOutput(c, value) ==
    IF c.output_object THEN value
    ELSE IF c.base64 THEN TransportWrap(CursorFormat(value.items))
    ELSE PyStr(CursorFormat(value.items))

\* a check that lets every Cursor object through
CursorCheckNothing(c, value) == Ok(value)

\* line 34: value._check_missing_keys(keys)
CursorCheck(c, value) == CheckMissingKeys(value.items, c.keys)

\* the frame after one step of validate(value) under closure c
CursorStepFrame(c, f) ==
    CASE f.pc = "start" ->
            IF f.value.t = "cursor" THEN Goto(f, "check", f.value)
            ELSE IF ~c.base64 THEN Goto(f, "parse", f.value)
            ELSE LET r == TransportUnwrap(f.value) IN
                 IF r.ok THEN Goto(f, "parse", r.v) ELSE Finish(f, CursorExcept(r))
      [] f.pc = "parse" ->
            LET r == CursorFromString(f.value, c.keys)
                g == [f EXCEPT !.parsed = TRUE]
            IN  IF r.ok THEN Goto(g, "output", r.v) ELSE Finish(g, CursorExcept(r))
      [] f.pc = "check" ->
            LET r == CursorCheck(c, f.value) IN
            IF r.ok THEN Goto(f, "output", f.value) ELSE Finish(f, CursorExcept(r))
      [] f.pc = "output" -> Finish(f, Ok(CursorOutput(c, f.value)))
      [] OTHER -> f

\* a step that takes the keys it has found out of the closure's key set
CursorStepSharedKeys(c, f) ==
    LET g == CursorStepFrame(c, f) IN
    [cfg |-> IF g.value.t = "cursor"
             THEN [c EXCEPT !.keys = c.keys \ CursorKeys(g.value.items)] ELSE c,
     frame |-> g]

\* one step of validate(value) under closure c: the closure, which no line of
\* validate() assigns or mutates, and the frame after the step
CursorStep(c, f) == [cfg |-> c, frame |-> CursorStepFrame(c, f)]

(***************************************************************************)
(* create_unionid_validator (validator.py 93-111).                         *)
(***************************************************************************)
\* namedtuple('FeedUnionId', 'user_id, feed_id'),
\* namedtuple('StoryUnionId', 'user_id, feed_id, offset')
TupleClassArity(cls) == IF cls = "FeedUnionId" THEN 2 ELSE 3

\* tuple_class(*value)
TupleClassNew(cls, value) ==
    IF value.t # "tuple" THEN Raise("TypeError", "argument after * must be an iterable", NoKeys)
    ELSE IF Len(value.ids) # TupleClassArity(cls)
         THEN Raise("TypeError", "__new__() got the wrong number of arguments", NoKeys)
    ELSE Ok(PyTuple(cls, value.ids))

\* unionid.encode(*value)
UnionidEncodeStar(value) ==
    IF value.t # "tuple" THEN Raise("TypeError", "argument after * must be an iterable", NoKeys)
    ELSE UnionidEncode(value.ids)

\* except (unionid.UnionIdError, TypeError, ValueError) as ex:
\*     raise Invalid('invalid unionid, {}'.format(str(ex))) from ex
UnionidExcept(r) ==
    IF IsSubclass(r.exc, {"UnionIdError", "TypeError", "ValueError"})
    THEN [r EXCEPT !.exc = "Invalid", !.msg = <<"invalid unionid, ">> \o r.msg]
    ELSE r

UnionidValidatorBuild(tuple_class, output_object) ==
    [tuple_class |-> tuple_class, output_object |-> output_object]

\* an output written for two components only
UnionidOutputFirstTwo(c, value) ==
    IF c.output_object THEN TupleClassNew(c.tuple_class, value)
    ELSE IF value.t = "tuple" /\ Len(value.ids) > 2
         THEN UnionidEncode(SubSeq(value.ids, 1, 2))
    ELSE UnionidEncodeStar(value)

\* lines 104-107
UnionidOutput(c, value) ==
    IF c.output_object THEN TupleClassNew(c.tuple_class, value)
    ELSE UnionidEncodeStar(value)

\* one step of validate(value) under closure c
UnionidStep(c, f) ==
    CASE f.pc = "start" ->
            IF f.value.t # "str" THEN [cfg |-> c, frame |-> Goto(f, "output", f.value)]
            ELSE LET r == UnionidDecode(f.value.s, NoArity) IN
                 [cfg |-> c,
                  frame |-> IF r.ok THEN Goto(f, "output", r.v) ELSE Finish(f, UnionidExcept(r))]
      [] f.pc = "output" ->
            LET r == UnionidOutput(c, f.value) IN
            [cfg |-> c, frame |-> Finish(f, IF r.ok THEN r ELSE UnionidExcept(r))]
      [] OTHER -> [cfg |-> c, frame |-> f]

(***************************************************************************)
(* dict_validator (validator.py 114-125).  Schema objects live in a heap   *)
(* (the variable schema), so that a copy and an alias differ; object 1 is  *)
(* the schema the caller passes in.                                        *)
(***************************************************************************)
CallerSchema == 1

\* no copy: the same object under another name
SchemaAlias(heap, ref) == [heap |-> heap, ref |-> ref]

\* schema.copy(): a new object with its own params
SchemaCopy(heap, ref) == [heap |-> Append(heap, heap[ref]), ref |-> Len(heap) + 1]

\* params.pop(name, default)
ParamsPop(params, name, default) ==
    [value |-> IF name \in DOMAIN params THEN params[name] ELSE default,
     rest |-> [k \in DOMAIN params \ {name} |-> params[k]]]

\* builtin_validators['dict'](compiler, schema): the base validator keeps the
\* items and the params it was built from
DictBuiltin(obj) == [items |-> obj.items, params |-> obj.params]

\* the base validator's validate(value): the declared items of a dict, None
\* for an absent one
OriginValidate(origin, value) ==
    IF value.t # "dict" THEN Raise("Invalid", "expect dict", NoKeys)
    ELSE Ok(PyDict([k \in origin.items |->
                       IF k \in DOMAIN value.d THEN value.d[k] ELSE PyNone]))

NotBuilt ==
    [built |-> FALSE, remove_empty |-> FALSE,
     origin |-> [items |-> {}, params |-> [k \in {} |-> FALSE]]]

\* lines 115-117: the heap and the closure of validate() after construction
DictValidatorBuild(heap, ref) ==
    LET copied == SchemaCopy(heap, ref)
        popped == ParamsPop(copied.heap[copied.ref].params, "remove_empty", FALSE)
        after == [copied.heap EXCEPT ![copied.ref].params = popped.rest]
    IN  [heap |-> after,
         closure |-> [built |-> TRUE, remove_empty |-> popped.value,
                      origin |-> DictBuiltin(after[copied.ref])]]

IsEmptyValue(v) == v.t = "none" \/ (v.t = "str" /\ v.s = <<>>)

\* lines 121-123
DictFilter(c, value) ==
    IF value.d # <<>> /\ c.remove_empty
    THEN PyDict([k \in {j \in DOMAIN value.d : ~IsEmptyValue(value.d[j])} |-> value.d[k]])
    ELSE value

\* one step of validate(value) under closure c
DictStep(c, f) ==
    CASE f.pc = "start" ->
            LET r == OriginValidate(c.origin, f.value) IN
            [cfg |-> c, frame |-> IF r.ok THEN Goto(f, "filter", r.v) ELSE Finish(f, r)]
      [] f.pc = "filter" ->
            [cfg |-> c, frame |-> Finish(f, Ok(DictFilter(c, f.value)))]
      [] OTHER -> [cfg |-> c, frame |-> f]

(***************************************************************************)
(* The values the validators are called with.                              *)
(***************************************************************************)
Threads == 1..NThreads

RawChars == {ChA, ChB, ChColon, ChComma}
RawStrings == SeqsUpTo(RawChars, MaxLen)

CursorKeyNames == {<<ChA>>, <<ChB>>, <<ChA, ChB>>}
CursorValues == {<<>>, <<ChA>>, <<ChYuml, ChYuml>>}
Entries == {<<k, v>> : k \in CursorKeyNames, v \in CursorValues}

\* the Cursor objects: unique non-empty keys, no delimiter in a key or a value
ValidCursors ==
    {c \in SeqsUpTo(Entries, MaxEntries) :
        \A i, j \in 1..Len(c) : c[i][1] = c[j][1] => i = j}

CanonicalStrings == {CursorFormat(c) : c \in ValidCursors}
TransportStrings == {TransportWrap(s).s : s \in CanonicalStrings}

\* a transport string with one foreign character put in, its last character
\* cut, its '_' written '/', or a non-ASCII character added
Corrupted(e) ==
    {InsertAt(e, i, ChBang) : i \in {1, (Len(e) \div 2) + 1, Len(e) + 1}}
    \cup {SubSeq(e, 1, Len(e) - 1) : x \in {1}}
    \cup {[i \in 1..Len(e) |-> IF e[i] = ChUnderscore THEN ChSlash ELSE e[i]]}
    \cup {Append(e, ChYuml)}

\* transport strings whose bytes are not UTF-8: a canonical string's bytes
\* with the last one cut, or with byte 255 added
BadUtf8Strings ==
    {UrlsafeB64Encode(SubSeq(Utf8Encode(s), 1, Len(Utf8Encode(s)) - 1)) :
        s \in {x \in CanonicalStrings : x # <<>> /\ x[Len(x)] = ChYuml}}
    \cup {UrlsafeB64Encode(Append(Utf8Encode(s), 255)) : s \in CanonicalStrings}

CursorStringInputs ==
    RawStrings \cup CanonicalStrings \cup TransportStrings \cup BadUtf8Strings
    \cup UNION {Corrupted(e) : e \in TransportStrings}

OtherObject == PyInt(5)

CursorInputs ==
    {PyStr(s) : s \in CursorStringInputs} \cup {PyCursor(c) : c \in ValidCursors}
    \cup {OtherObject}

\* keys=None, keys='a', keys='a, b'
KeysOptions == {PyNone, PyStr(<<ChA>>), PyStr(<<ChA, ChComma, ChSpace, ChB>>)}

CursorConfigs ==
    {CursorValidatorBuild(k, o, b) : k \in KeysOptions, o \in BOOLEAN, b \in BOOLEAN}

ComponentValues == {-1, 0, 1, MaxComponent, MaxComponent + 1}
InRangeValues == {n \in ComponentValues : n >= 0 /\ n <= MaxComponent}
MaxArity == 3

UnionidTuples == SeqsUpTo(ComponentValues, MaxArity) \ {<<>>}
InRangeTuples == SeqsUpTo(InRangeValues, MaxArity) \ {<<>>}
Tokens == {UnionidEncode(ids).v.s : ids \in InRangeTuples}

\* a token with one foreign character put in, its last character cut, or a
\* field length added that no digits follow
CorruptedToken(e) ==
    {InsertAt(e, i, ChBang) : i \in {1, Len(e) + 1}}
    \cup {SubSeq(e, 1, Len(e) - 1) : x \in {1}}
    \cup {Append(e, TokenChar(1))}

UnionidInputs ==
    {PyStr(s) : s \in Tokens \cup UNION {CorruptedToken(e) : e \in Tokens}}
    \cup {PyTuple("tuple", ids) : ids \in UnionidTuples}
    \cup {OtherObject}

UnionidConfigs ==
    {UnionidValidatorBuild(cls, o) : cls \in {"FeedUnionId", "StoryUnionId"}, o \in BOOLEAN}

DictItems == {"x", "y"}
DictKeys == {"x", "y", "z"}
DictValues == {PyNone, PyStr(<<>>), PyStr(<<ChA>>), PyInt(0)}
DictInputs ==
    {PyDict(d) : d \in UNION {[D -> DictValues] : D \in SUBSET DictKeys}}
    \cup {OtherObject}

\* a dict schema with or without the decorator's option
DictSchemas ==
    {[items |-> i, params |-> p] :
        i \in {{}, DictItems},
        p \in [{"optional"} -> BOOLEAN] \cup [{"optional", "remove_empty"} -> BOOLEAN]}

DefaultCursorConfig == CursorValidatorBuild(PyNone, FALSE, FALSE)
DefaultUnionidConfig == UnionidValidatorBuild("FeedUnionId", FALSE)
DefaultSchema == [items |-> DictItems, params |-> [k \in {"optional"} |-> FALSE]]

(***************************************************************************)
(* The state machine.  cursor_cfg and unionid_cfg are the closures of the  *)
(* two validate() functions, schema is the heap of schema objects,         *)
(* dict_cfg the closure of the dict validator, frames the calls of         *)
(* validate() in progress, one per thread.                                 *)
(***************************************************************************)
ConfigsOf(fn) ==
    {[cursor |-> c, unionid |-> u, schema |-> s] :
        c \in IF fn = "cursor" THEN CursorConfigs ELSE {DefaultCursorConfig},
        u \in IF fn = "unionid" THEN UnionidConfigs ELSE {DefaultUnionidConfig},
        s \in IF fn = "dict" THEN DictSchemas ELSE {DefaultSchema}}

InputsOf(fn) ==
    IF fn = "cursor" THEN CursorInputs
    ELSE IF fn = "unionid" THEN UnionidInputs
    ELSE DictInputs

\* the validators are built; the dict validator of the scenario that calls it
\* is still to be built from the caller's schema
InitConfig(fn, cfg) ==
    /\ cursor_cfg = cfg.cursor
    /\ unionid_cfg = cfg.unionid
    /\ IF fn = "dict"
       THEN schema = <<cfg.schema>> /\ dict_cfg = NotBuilt
       ELSE LET b == DictValidatorBuild(<<cfg.schema>>, CallerSchema)
            IN  schema = b.heap /\ dict_cfg = b.closure

\* one call of one validator
Init ==
    \E fn \in {"cursor", "unionid", "dict"} :
        \E cfg \in ConfigsOf(fn), v \in InputsOf(fn) :
            /\ InitConfig(fn, cfg)
            /\ frames = [t \in Threads |-> IF t = 1 THEN NewFrame(fn, v) ELSE IdleFrame]

Running(t, fn) == frames[t].fn = fn /\ frames[t].pc \notin {"idle", "done"}

\* a step of a call of the cursor validator's validate()
CursorValidate(t) ==
    /\ Running(t, "cursor")
    /\ LET r == CursorStep(cursor_cfg, frames[t]) IN
          /\ cursor_cfg' = r.cfg
          /\ frames' = [frames EXCEPT ![t] = r.frame]
    /\ UNCHANGED <<unionid_cfg, schema, dict_cfg>>

\* a step of a call of a unionid validator's validate()
UnionidValidate(t) ==
    /\ Running(t, "unionid")
    /\ LET r == UnionidStep(unionid_cfg, frames[t]) IN
          /\ unionid_cfg' = r.cfg
          /\ frames' = [frames EXCEPT ![t] = r.frame]
    /\ UNCHANGED <<cursor_cfg, schema, dict_cfg>>

\* dict_validator(compiler, schema)
DictValidatorCreate ==
    /\ ~dict_cfg.built
    /\ LET b == DictValidatorBuild(schema, CallerSchema) IN
          /\ schema' = b.heap
          /\ dict_cfg' = b.closure
    /\ UNCHANGED <<cursor_cfg, unionid_cfg, frames>>

\* a step of a call of the dict validator's validate()
DictValidate(t) ==
    /\ dict_cfg.built
    /\ Running(t, "dict")
    /\ LET r == DictStep(dict_cfg, frames[t]) IN
          /\ dict_cfg' = r.cfg
          /\ frames' = [frames EXCEPT ![t] = r.frame]
    /\ UNCHANGED <<cursor_cfg, unionid_cfg, schema>>

Next ==
    \/ \E t \in Threads : CursorValidate(t)
    \/ \E t \in Threads : UnionidValidate(t)
    \/ DictValidatorCreate
    \/ \E t \in Threads : DictValidate(t)

Spec == Init /\ [][Next]_vars

(***************************************************************************)
(* Concurrent calls of one validate closure, arbitrarily interleaved.      *)
(***************************************************************************)
ConcCursorInputs ==
    {PyStr(<<ChA, ChColon, ChB>>),
     PyStr(<<ChB, ChColon>>),
     PyStr(TransportWrap(<<ChA, ChColon, ChComma, ChB, ChColon>>).s),
     PyCursor(<<<<<<ChB>>, <<ChYuml, ChYuml>>>>>>),
     PyCursor(<<<<<<ChA>>, <<>>>>, <<<<ChB>>, <<ChA>>>>>>)}

ConcUnionidInputs ==
    {PyStr(UnionidEncode(<<1, MaxComponent>>).v.s),
     PyStr(UnionidEncode(<<0, 1, 1>>).v.s),
     PyStr(<<ChBang>>),
     PyTuple("tuple", <<1, 0>>),
     PyTuple("tuple", <<1, MaxComponent + 1, 0>>)}

ConcDictInputs ==
    {PyDict([k \in {"x", "y"} |-> IF k = "x" THEN PyNone ELSE PyInt(0)]),
     PyDict([k \in {"x", "z"} |-> PyStr(<<>>)]),
     PyDict([k \in {"x", "y"} |-> PyStr(<<ChA>>)]),
     OtherObject}

ConcInputsOf(fn) ==
    IF fn = "cursor" THEN ConcCursorInputs
    ELSE IF fn = "unionid" THEN ConcUnionidInputs
    ELSE ConcDictInputs

ConcInit ==
    \E fn \in {"cursor", "unionid", "dict"} :
        \E cfg \in ConfigsOf(fn), vs \in [Threads -> ConcInputsOf(fn)] :
            /\ InitConfig(fn, cfg)
            /\ frames = [t \in Threads |-> NewFrame(fn, vs[t])]

ConcSpec == ConcInit /\ [][Next]_vars

(***************************************************************************)
(* A call run alone, from its first step to its return.                    *)
(***************************************************************************)
RECURSIVE CursorRun(_, _)
CursorRun(c, f) ==
    IF f.pc = "done" THEN f.out
    ELSE LET r == CursorStep(c, f) IN CursorRun(r.cfg, r.frame)

RECURSIVE UnionidRun(_, _)
UnionidRun(c, f) ==
    IF f.pc = "done" THEN f.out
    ELSE LET r == UnionidStep(c, f) IN UnionidRun(r.cfg, r.frame)

CursorCall(c, v) == CursorRun(c, NewFrame("cursor", v))
UnionidCall(c, v) == UnionidRun(c, NewFrame("unionid", v))

(***************************************************************************)
(* Properties.                                                             *)
(***************************************************************************)
Done(t, fn) == frames[t].fn = fn /\ frames[t].pc = "done"

Rejected(out) == ~out.ok /\ out.exc = "Invalid"

\* C1: a token whose component count differs from the arity of the
\* validator's kind is rejected with Invalid, whatever output_object is.
C1_ArityMismatchRejected ==
    \A t \in Threads :
        (/\ Done(t, "unionid")
         /\ frames[t].input.t = "str"
         /\ LET d == UnionidDecode(frames[t].input.s, NoArity) IN
               d.ok /\ Len(d.v.ids) # TupleClassArity(unionid_cfg.tuple_class))
        => Rejected(frames[t].out)

\* C2: a failing call of the cursor or a unionid validate() raises Invalid,
\* with a message, and nothing else.
C2_OnlyInvalidEscapes ==
    \A t \in Threads :
        ((Done(t, "cursor") \/ Done(t, "unionid")) /\ ~frames[t].out.ok)
        => (frames[t].out.exc = "Invalid" /\ frames[t].out.msg # <<>>)

InUrlsafeAlphabet(c) ==
    c \in {ChMinus, ChUnderscore, ChPad} \/ StdB64Value(c) < 62

NotUtf8Payload(s) ==
    /\ EncodeAscii(s).ok
    /\ LET raw == UrlsafeB64Decode(s) IN raw.ok /\ ~Utf8Decode(raw.v.b).ok

\* C3: under base64=True a string with a character outside the URL-safe
\* alphabet, or whose bytes are not UTF-8, is rejected and never reaches the
\* grammar parser.
C3_ForeignCharacterRejected ==
    \A t \in Threads :
        (/\ frames[t].fn = "cursor"
         /\ cursor_cfg.base64
         /\ frames[t].input.t = "str"
         /\ \/ \E i \in 1..Len(frames[t].input.s) : ~InUrlsafeAlphabet(frames[t].input.s[i])
            \/ NotUtf8Payload(frames[t].input.s))
        => (/\ ~frames[t].parsed
            /\ frames[t].pc = "done" => Rejected(frames[t].out))

\* C4: with base64=True, the string rendered from a Cursor with
\* output_object=False is rendered whenever no required key is missing, and
\* validates with output_object=True to that same Cursor.
C4_TransportRoundTrip ==
    \A t \in Threads :
        (/\ Done(t, "cursor")
         /\ frames[t].input.t = "cursor"
         /\ cursor_cfg.base64 /\ ~cursor_cfg.output_object)
        => (/\ cursor_cfg.keys \subseteq CursorKeys(frames[t].input.items) => frames[t].out.ok
            /\ frames[t].out.ok =>
                  /\ frames[t].out.v.t = "str"
                  /\ CursorCall([cursor_cfg EXCEPT !.output_object = TRUE], frames[t].out.v)
                        = Ok(frames[t].input))

C4_Witness ==
    /\ Done(1, "cursor")
    /\ frames[1].input.t = "cursor" /\ Len(frames[1].input.items) = 2
    /\ frames[1].input.items[2][2] = <<ChYuml, ChYuml>>
    /\ cursor_cfg.base64 /\ ~cursor_cfg.output_object
    /\ frames[1].out.ok
    /\ Contains(frames[1].out.v.s, ChUnderscore)

\* the Cursor a string stands for when no key is required
Built(t) ==
    CursorCall([cursor_cfg EXCEPT !.keys = NoKeys, !.output_object = TRUE], frames[t].input)

\* C5: an input, string or Cursor, that lacks a required key is rejected and
\* the failure names every missing key; the empty string is accepted, as the
\* empty Cursor, exactly when no key is required.
C5_MissingKeysRejected ==
    \A t \in Threads :
        Done(t, "cursor") /\ frames[t].input.t \in {"str", "cursor"}
        => LET b == Built(t)
               missing == cursor_cfg.keys \ CursorKeys(b.v.items)
           IN  /\ ~b.ok => ~frames[t].out.ok
               /\ (b.ok /\ missing # {}) =>
                     (Rejected(frames[t].out) /\ frames[t].out.named = missing)
               /\ (frames[t].input = PyStr(<<>>)) =>
                     /\ frames[t].out.ok <=> cursor_cfg.keys = {}
                     /\ frames[t].out.ok =>
                           CursorCall([cursor_cfg EXCEPT !.output_object = TRUE],
                                      frames[t].out.v) = Ok(PyCursor(<<>>))

C5_Witness ==
    /\ Done(1, "cursor")
    /\ frames[1].input.t = "cursor" /\ frames[1].input.items # <<>>
    /\ Cardinality(cursor_cfg.keys) = 2
    /\ Rejected(frames[1].out) /\ frames[1].out.named = cursor_cfg.keys

C5_WitnessString ==
    /\ Done(1, "cursor")
    /\ frames[1].input.t = "str" /\ frames[1].input.s # <<>>
    /\ Built(1).ok
    /\ Rejected(frames[1].out) /\ Cardinality(frames[1].out.named) = 2

\* C6: with base64=False and no required keys, the string rendered from a
\* Cursor parses back to that Cursor, and the normalized form of an accepted
\* string is a fixed point of validate().
C6_CursorRoundTrip ==
    \A t \in Threads :
        (/\ Done(t, "cursor")
         /\ ~cursor_cfg.base64 /\ cursor_cfg.keys = {} /\ ~cursor_cfg.output_object)
        => (/\ frames[t].input.t = "cursor" =>
                  /\ frames[t].out.ok
                  /\ CursorCall([cursor_cfg EXCEPT !.output_object = TRUE], frames[t].out.v)
                        = Ok(frames[t].input)
            /\ (frames[t].input.t = "str" /\ frames[t].out.ok) =>
                  CursorCall(cursor_cfg, frames[t].out.v) = Ok(frames[t].out.v))

C6_Witness ==
    /\ Done(1, "cursor")
    /\ ~cursor_cfg.base64 /\ cursor_cfg.keys = {} /\ ~cursor_cfg.output_object
    /\ frames[1].input.t = "cursor" /\ Len(frames[1].input.items) = 2
    /\ frames[1].input.items[1][1] = <<ChB>>
    /\ frames[1].out.ok

InRange(ids) == \A i \in 1..Len(ids) : ids[i] >= 0 /\ ids[i] <= MaxComponent

C8_OutputFormByFlag ==
    \A t \in Threads :
        /\ (Done(t, "cursor") /\ frames[t].out.ok) =>
              frames[t].out.v.t = IF cursor_cfg.output_object THEN "cursor" ELSE "str"
        /\ (Done(t, "unionid") /\ frames[t].out.ok) =>
              IF unionid_cfg.output_object
              THEN /\ frames[t].out.v.t = "tuple"
                   /\ frames[t].out.v.cls = unionid_cfg.tuple_class
              ELSE frames[t].out.v.t = "str"

C8_Witness ==
    /\ Done(1, "cursor") /\ frames[1].out.ok
    /\ frames[1].input.t = "cursor" /\ frames[1].input.items # <<>>
    /\ ~cursor_cfg.output_object

C8_WitnessString ==
    /\ Done(1, "unionid") /\ frames[1].out.ok
    /\ frames[1].input.t = "str"
    /\ unionid_cfg.output_object

\* what a call returns when it runs alone
Alone(f) ==
    IF f.fn = "cursor" THEN CursorCall(cursor_cfg, f.input)
    ELSE UnionidCall(unionid_cfg, f.input)

\* C9: interleaved calls of one validate closure each return what the call
\* returns alone; no step changes the closure or the value passed in.
C9_ConcurrentCallsIndependent ==
    [][/\ cursor_cfg' = cursor_cfg
       /\ unionid_cfg' = unionid_cfg
       /\ \A t \in Threads :
             /\ frames'[t].input = frames[t].input
             /\ (frames'[t].fn \in {"cursor", "unionid"} /\ frames'[t].pc = "done") =>
                   frames'[t].out = Alone(frames[t])]_vars

C9_Witness ==
    /\ Done(1, "cursor") /\ Rejected(frames[1].out)
    /\ frames[2].fn = "cursor" /\ frames[2].pc = "output"
    /\ frames[2].input # frames[1].input
    /\ cursor_cfg.keys # {}

PoppedOption(params) ==
    IF "remove_empty" \in DOMAIN params THEN params["remove_empty"] ELSE FALSE

\* C10: building the dict validator leaves the caller's schema as it was,
\* remove_empty included; the base validator is built without that option;
\* once built, no step changes the configuration; and with remove_empty set
\* the result is the base validator's result minus the entries that are None
\* or the empty string.
C10_RemoveEmptyConsumedOnce ==
    [][/\ schema'[CallerSchema] = schema[CallerSchema]
       /\ dict_cfg.built => (dict_cfg' = dict_cfg /\ schema' = schema)
       /\ dict_cfg'.built =>
             /\ "remove_empty" \notin DOMAIN dict_cfg'.origin.params
             /\ dict_cfg'.remove_empty = PoppedOption(schema[CallerSchema].params)
       /\ \A t \in Threads :
             (frames'[t].fn = "dict" /\ frames'[t].pc = "done" /\ frames'[t].out.ok) =>
                LET base == OriginValidate(dict_cfg'.origin, frames'[t].input).v.d
                    result == frames'[t].out.v.d
                    kept == {k \in DOMAIN base :
                                ~(base[k].t = "none" \/ base[k] = PyStr(<<>>))}
                IN  IF dict_cfg'.remove_empty
                    THEN DOMAIN result = kept /\ \A k \in kept : result[k] = base[k]
                    ELSE result = base]_vars

C10_Witness ==
    /\ Done(1, "dict") /\ frames[1].out.ok
    /\ dict_cfg.remove_empty
    /\ "remove_empty" \in DOMAIN schema[CallerSchema].params
    /\ DOMAIN frames[1].out.v.d = {"y"}
    /\ frames[1].out.v.d["y"] = PyInt(0)

====
